---- MODULE Spec2Model ----
(***************************************************************************)
(* Model of buslog: the workflow store (core/workflow_manager.py), the     *)
(* code analyzer (core/analyzer.py) and the entry-point detection of the   *)
(* prompt generator (core/prompt_generator.py).                            *)
(*                                                                         *)
(* Strings are sequences of one-character strings, so that lower-casing,   *)
(* replace, title-casing and string comparison are computed character by   *)
(* character as Python computes them.                                      *)
(***************************************************************************)
EXTENDS Integers, Sequences, FiniteSets, TLC

VARIABLES
    buslog_dir,     \* TRUE iff <project>/.business-logic exists
    workflows_dir,  \* TRUE iff <project>/.business-logic/workflows exists
    config_file,    \* <project>/.business-logic/config.json
    index_file,     \* <project>/.business-logic/index.md
    files,          \* the *.md files written below .business-logic
    now,            \* the clock read by datetime.now()
    last,           \* the last call: operation, arguments, outcome, result
    added,          \* history: the names passed to successful add_workflow calls
    pc,             \* per writer: position inside add_workflow (interleaved runs)
    local,          \* per writer: local variables of add_workflow
    tree,           \* the project tree handed to the scan passes
    scan            \* the result of the last scan pass

vars == <<buslog_dir, workflows_dir, config_file, index_file, files, now, last,
          added, pc, local, tree, scan>>

storeVars == <<buslog_dir, workflows_dir, config_file, index_file, files>>

(***************************************************************************)
(* Bounds                                                                  *)
(***************************************************************************)
MaxClock == 4       \* number of store calls in one run

(***************************************************************************)
(* Characters and Python string operations                                 *)
(***************************************************************************)
TAB == "\t"

LowerLetters == <<"a", "b", "c", "d", "e", "f", "g", "h", "i", "j", "k", "l", "m",
                  "n", "o", "p", "q", "r", "s", "t", "u", "v", "w", "x", "y", "z">>
UpperLetters == <<"A", "B", "C", "D", "E", "F", "G", "H", "I", "J", "K", "L", "M",
                  "N", "O", "P", "Q", "R", "S", "T", "U", "V", "W", "X", "Y", "Z">>
OtherChars == {TAB, " ", "-", ".", "/", "_"}

IndexIn(seq, c) == CHOOSE i \in 1..Len(seq) : seq[i] = c

\* ord(c) for the characters used
CodePoint ==
    [c \in {LowerLetters[i] : i \in 1..26} \cup {UpperLetters[i] : i \in 1..26} \cup OtherChars |->
        IF \E i \in 1..26 : LowerLetters[i] = c THEN 96 + IndexIn(LowerLetters, c)
        ELSE IF \E i \in 1..26 : UpperLetters[i] = c THEN 64 + IndexIn(UpperLetters, c)
        ELSE CASE c = TAB -> 9
               [] c = " " -> 32
               [] c = "-" -> 45
               [] c = "." -> 46
               [] c = "/" -> 47
               [] c = "_" -> 95]

Chars == DOMAIN CodePoint

IsUpper(c) == CodePoint[c] >= 65 /\ CodePoint[c] <= 90
IsLower(c) == CodePoint[c] >= 97 /\ CodePoint[c] <= 122
IsSpace(c) == c \in {" ", TAB}

CharOf(n) == CHOOSE c \in Chars : CodePoint[c] = n

LowerChar(c) == IF IsUpper(c) THEN CharOf(CodePoint[c] + 32) ELSE c
UpperChar(c) == IF IsLower(c) THEN CharOf(CodePoint[c] - 32) ELSE c

\* str.lower()
Lower(s) == [i \in 1..Len(s) |-> LowerChar(s[i])]

\* str.replace(old, new) for one-character old and new
Replace(s, old, new) == [i \in 1..Len(s) |-> IF s[i] = old THEN new ELSE s[i]]

\* str.title(): a cased character is upper-cased when the previous character
\* is not cased, lower-cased when it is
Title(s) ==
    [i \in 1..Len(s) |->
        LET prevCased == i > 1 /\ (IsUpper(s[i - 1]) \/ IsLower(s[i - 1]))
        IN  IF prevCased THEN LowerChar(s[i]) ELSE UpperChar(s[i])]

\* a < b for Python str: lexicographic on code points
RECURSIVE StrLess(_, _)
StrLess(a, b) ==
    IF Len(b) = 0 THEN FALSE
    ELSE IF Len(a) = 0 THEN TRUE
    ELSE IF a[1] # b[1] THEN CodePoint[a[1]] < CodePoint[b[1]]
    ELSE StrLess(Tail(a), Tail(b))

\* s.split(sep) for a one-character separator
RECURSIVE Split(_, _)
Split(s, sep) ==
    IF \A i \in 1..Len(s) : s[i] # sep THEN <<s>>
    ELSE LET k == CHOOSE i \in 1..Len(s) : s[i] = sep /\ \A j \in 1..(i - 1) : s[j] # sep
         IN  <<SubSeq(s, 1, k - 1)>> \o Split(SubSeq(s, k + 1, Len(s)), sep)

(***************************************************************************)
(* The project tree and the path operations of pathlib                     *)
(***************************************************************************)
MaxFiles == 3       \* files in the project tree

RootPath == <<"/", "w">>                       \* str(self.project_root)

\* s contains sub: Python's `sub in s`
Contains(s, sub) ==
    \E i \in 1..(Len(s) - Len(sub) + 1) : SubSeq(s, i, i + Len(sub) - 1) = sub

EndsWith(s, suffix) ==
    Len(s) >= Len(suffix) /\ SubSeq(s, Len(s) - Len(suffix) + 1, Len(s)) = suffix

\* name.rfind("."), 1-based; 0 when there is no dot
LastDot(name) ==
    LET dots == {i \in 1..Len(name) : name[i] = "."}
    IN  IF dots = {} THEN 0 ELSE CHOOSE i \in dots : \A j \in dots : j <= i

\* PurePath.suffix and PurePath.stem: a leading or a trailing dot starts no suffix
HasSuffix(name) == LastDot(name) > 1 /\ LastDot(name) < Len(name)
SuffixOf(name) == IF HasSuffix(name) THEN SubSeq(name, LastDot(name), Len(name)) ELSE <<>>
Stem(name) == IF HasSuffix(name) THEN SubSeq(name, 1, LastDot(name) - 1) ELSE name

RECURSIVE JoinPath(_)
JoinPath(parts) ==
    IF Len(parts) = 0 THEN <<>>
    ELSE IF Len(parts) = 1 THEN parts[1]
    ELSE parts[1] \o <<"/">> \o JoinPath(Tail(parts))

\* str(file.relative_to(self.project_root)), str(file) and str(file.parent)
RelPath(f) == JoinPath(Append(f.dirs, f.name))
PathStr(f) == JoinPath(<<RootPath>> \o Append(f.dirs, f.name))
ParentStr(f) == JoinPath(<<RootPath>> \o f.dirs)

\* the lines a source file is made of
AppRoute == "@app.get('/a')"
ClickCommand == "@click.command()"
ImportFlask == "import flask"
Lines == {AppRoute, ClickCommand, ImportFlask}

\* the literals of the keyword and indicator tables that occur in a line
LiteralsIn(line) ==
    CASE line = AppRoute -> {"@app.", "app.get"}
      [] line = ClickCommand -> {"@click."}
      [] line = ImportFlask -> {"import flask"}
      [] OTHER -> {}

\* the entry point regular expressions of CodeAnalyzer._find_entry_points
ApiAppDecorator == "@app\\.(get|post|put|delete|patch)\\(['\\\"]([^'\\\"]+)"
ApiRouterDecorator == "@router\\.(get|post|put|delete|patch)\\(['\\\"]([^'\\\"]+)"
ApiAppCall == "app\\.(get|post|put|delete|patch)\\(['\\\"]([^'\\\"]+)"
CliClick == "@click\\.command\\(\\)"
CliTyper == "@typer\\.command\\(\\)"
CliMain == "def main\\("
EventDecorator == "@event\\."
EventOn == "\\.on\\(['\\\"]([^'\\\"]+)"
EventListener == "addEventListener\\(['\\\"]([^'\\\"]+)"

\* re.finditer(pattern, line): the matched texts, in order
FindIter(pattern, line) ==
    IF line = AppRoute /\ pattern = ApiAppDecorator THEN <<"@app.get('/a">>
    ELSE IF line = AppRoute /\ pattern = ApiAppCall THEN <<"app.get('/a">>
    ELSE IF line = ClickCommand /\ pattern = CliClick THEN <<"@click.command()">>
    ELSE <<>>

InList(x, seq) == \E i \in 1..Len(seq) : seq[i] = x

RECURSIVE Concat(_)
Concat(seqs) == IF seqs = <<>> THEN <<>> ELSE Head(seqs) \o Concat(Tail(seqs))

\* the paths a tree may hold
CandidatePaths ==
    { [dirs |-> <<>>, name |-> <<"a", ".", "p", "y">>],
      [dirs |-> <<>>, name |-> <<"b", ".", "j", "s">>],
      [dirs |-> <<<<"t", "e", "s", "t", "s">>>>, name |-> <<"c", ".", "p", "y">>],
      [dirs |-> <<<<"d", "i", "s", "t">>>>, name |-> <<"d", ".", "p", "y">>],
      [dirs |-> <<<<".", "v", "e", "n", "v">>>>, name |-> <<"e", ".", "p", "y">>] }

\* the texts a file may hold
Contents ==
    { <<>>,
      <<ClickCommand>>,
      <<ClickCommand, ClickCommand>>,
      <<ImportFlask>>,
      <<ImportFlask, AppRoute>> }

\* what a file holds: text, or bytes that read_text cannot decode
FileStates ==
    {[content |-> c, readable |-> TRUE] : c \in Contents}
        \cup {[content |-> <<>>, readable |-> FALSE]}

MkFile(path, st) ==
    [dirs |-> path.dirs, name |-> path.name, content |-> st.content, readable |-> st.readable]

\* the orders in which glob may yield the members of S
RECURSIVE Orders(_)
Orders(S) ==
    IF S = {} THEN {<<>>}
    ELSE UNION {{<<x>> \o o : o \in Orders(S \ {x})} : x \in S}

(***************************************************************************)
(* CodeAnalyzer (core/analyzer.py)                                         *)
(***************************************************************************)
\* CodeAnalyzer._is_excluded, excluded_patterns
ExcludedPatterns ==
    << <<".", "g", "i", "t">>,
       <<".", "v", "e", "n", "v">>,
       <<"v", "e", "n", "v">>,
       <<"n", "o", "d", "e", "_", "m", "o", "d", "u", "l", "e", "s">>,
       <<"_", "_", "p", "y", "c", "a", "c", "h", "e", "_", "_">>,
       <<".", "p", "y", "t", "e", "s", "t", "_", "c", "a", "c", "h", "e">>,
       <<"d", "i", "s", "t">>,
       <<"b", "u", "i", "l", "d">>,
       <<".", "b", "u", "s", "i", "n", "e", "s", "s", "-", "l", "o", "g", "i", "c">> >>

\* CodeAnalyzer._is_excluded: any(pattern in str(path) ...)
is_excluded(f) ==
    \E i \in 1..Len(ExcludedPatterns) : Contains(PathStr(f), ExcludedPatterns[i])

\* CodeAnalyzer._detect_languages, language_extensions, in declaration order
LanguageExtensions ==
    << [ext |-> <<".", "p", "y">>, lang |-> "Python"],
       [ext |-> <<".", "j", "s">>, lang |-> "JavaScript"],
       [ext |-> <<".", "t", "s">>, lang |-> "TypeScript"],
       [ext |-> <<".", "j", "s", "x">>, lang |-> "React"],
       [ext |-> <<".", "t", "s", "x">>, lang |-> "React/TypeScript"],
       [ext |-> <<".", "j", "a", "v", "a">>, lang |-> "Java"],
       [ext |-> <<".", "g", "o">>, lang |-> "Go"],
       [ext |-> <<".", "r", "s">>, lang |-> "Rust"],
       [ext |-> <<".", "r", "b">>, lang |-> "Ruby"],
       [ext |-> <<".", "p", "h", "p">>, lang |-> "PHP"],
       [ext |-> <<".", "c", "s">>, lang |-> "C#"],
       [ext |-> <<".", "c", "p", "p">>, lang |-> "C++"],
       [ext |-> <<".", "c">>, lang |-> "C"],
       [ext |-> <<".", "s", "w", "i", "f", "t">>, lang |-> "Swift"],
       [ext |-> <<".", "k", "t">>, lang |-> "Kotlin"] >>

\* self.project_root.rglob(f"*{ext}")
rglob_ext(tr, ext) == {f \in tr : EndsWith(f.name, ext)}

\* sorted(detected.items(), key=lambda x: x[1], reverse=True): stable
RECURSIVE InsertByCount(_, _)
InsertByCount(x, s) ==
    IF s = <<>> THEN <<x>>
    ELSE IF Head(s).count < x.count THEN <<x>> \o s
    ELSE <<Head(s)>> \o InsertByCount(x, Tail(s))

RECURSIVE SortByCount(_)
SortByCount(s) ==
    IF s = <<>> THEN <<>>
    ELSE InsertByCount(s[Len(s)], SortByCount(SubSeq(s, 1, Len(s) - 1)))

\* the dict `detected`, in insertion order
detected_languages(tr) ==
    LET entry(i) == [lang |-> LanguageExtensions[i].lang,
                     count |-> Cardinality(rglob_ext(tr, LanguageExtensions[i].ext))]
    IN  SelectSeq([i \in 1..Len(LanguageExtensions) |-> entry(i)], LAMBDA e : e.count > 0)

\* CodeAnalyzer._detect_languages
detect_languages(tr) ==
    LET ranked == SortByCount(detected_languages(tr))
    IN  [i \in 1..Len(ranked) |-> ranked[i].lang]

SourceSuffixes ==
    { <<".", "p", "y">>,
      <<".", "j", "s">>,
      <<".", "t", "s">>,
      <<".", "j", "a", "v", "a">>,
      <<".", "g", "o">>,
      <<".", "r", "s">> }

ConfigSuffixes ==
    { <<".", "j", "s", "o", "n">>,
      <<".", "y", "a", "m", "l">>,
      <<".", "y", "m", "l">>,
      <<".", "t", "o", "m", "l">>,
      <<".", "i", "n", "i">>,
      <<".", "e", "n", "v">> }

is_test_file(f) ==
    \/ Contains(Lower(f.name), <<"t", "e", "s", "t">>)
    \/ Contains(Lower(ParentStr(f)), <<"t", "e", "s", "t">>)

\* CodeAnalyzer._count_files
count_files(tr) ==
    LET retained == {f \in tr : ~is_excluded(f)}
    IN  [total |-> Cardinality(retained),
         source |-> Cardinality({f \in retained : SuffixOf(f.name) \in SourceSuffixes}),
         test |-> Cardinality({f \in retained : is_test_file(f)}),
         config |-> Cardinality({f \in retained : SuffixOf(f.name) \in ConfigSuffixes})]

\* CodeAnalyzer._detect_frameworks, indicators, in declaration order
Indicators ==
    << [framework |-> "FastAPI", patterns |-> {"from fastapi import", "import fastapi"}],
       [framework |-> "Django", patterns |-> {"from django.", "import django"}],
       [framework |-> "Flask", patterns |-> {"from flask import", "import flask"}],
       [framework |-> "Express", patterns |-> {"require('express')", "from 'express'"}],
       [framework |-> "React", patterns |-> {"from 'react'", "import React"}],
       [framework |-> "Vue", patterns |-> {"from 'vue'", "import Vue"}],
       [framework |-> "Angular", patterns |-> {"@angular/", "import { Component }"}],
       [framework |-> "Spring", patterns |-> {"@SpringBootApplication", "org.springframework"}],
       [framework |-> "Rails",
        patterns |-> {"class.*< ApplicationController", "Rails.application"}] >>

\* pattern in content, for a literal pattern
LiteralIn(literal, f) == \E i \in 1..Len(f.content) : literal \in LiteralsIn(f.content[i])

\* file.read_text(encoding="utf-8"): the text, or the exception it raises
read_text(f) ==
    IF f.readable THEN [raised |-> "", content |-> f.content]
    ELSE [raised |-> "UnicodeDecodeError", content |-> <<>>]

\* a loop body without the try statement: the exception leaves the loop
try_read_uncaught(f) ==
    [raised |-> read_text(f).raised, skipped |-> FALSE, content |-> read_text(f).content]

\* try: content = file.read_text(encoding="utf-8") ... except Exception: continue
\* -- the loop body gets the text, or the file is skipped; nothing is raised
try_read(f) ==
    [raised |-> "", skipped |-> read_text(f).raised # "", content |-> read_text(f).content]

\* the exception that leaves a loop over the files `read`, "" when none does
raised_by(read) ==
    IF \E f \in read : try_read(f).raised # "" THEN "UnicodeDecodeError" ELSE ""

\* the files whose text a content scan gets to see
Searchable(f) == ~is_excluded(f) /\ ~try_read(f).skipped /\ try_read(f).raised = ""

\* CodeAnalyzer._search_patterns: the files that make it return True, among the
\* files `searched` that its loop gets to read
search_patterns_hits(searched, patterns) ==
    {f \in searched : \E p \in patterns : LiteralIn(p, f)}

\* CodeAnalyzer._detect_frameworks
detect_frameworks(tr) ==
    LET searched == {f \in tr : Searchable(f)}
        found == SelectSeq(Indicators,
                           LAMBDA ind : search_patterns_hits(searched, ind.patterns) # {})
    IN  [i \in 1..Len(found) |-> found[i].framework]

\* CodeAnalyzer._find_entry_points, patterns, in declaration order
EntryPatterns ==
    << [type |-> "API Endpoint", patterns |-> <<ApiAppDecorator, ApiRouterDecorator, ApiAppCall>>],
       [type |-> "CLI Command", patterns |-> <<CliClick, CliTyper, CliMain>>],
       [type |-> "Event Handler", patterns |-> <<EventDecorator, EventOn, EventListener>>] >>

\* the matches of one file: for match in re.finditer(pattern, content)
matches_in_file(pattern, f) ==
    LET found == Concat([i \in 1..Len(f.content) |-> FindIter(pattern, f.content[i])])
    IN  [i \in 1..Len(found) |-> [file |-> f, match |-> found[i]]]

\* CodeAnalyzer._search_pattern_in_files; `searched` is what its loop gets to
\* read: the rglob("*") members, in rglob order, that are Searchable
search_pattern_in_files(pattern, searched) ==
    Concat([i \in 1..Len(searched) |-> matches_in_file(pattern, searched[i])])

\* CodeAnalyzer._find_entry_points
find_entry_points(searched) ==
    Concat([g \in 1..Len(EntryPatterns) |->
        Concat([k \in 1..Len(EntryPatterns[g].patterns) |->
            LET matches == search_pattern_in_files(EntryPatterns[g].patterns[k], searched)
            IN  [i \in 1..Len(matches) |->
                    [type |-> EntryPatterns[g].type,
                     file |-> RelPath(matches[i].file),
                     match |-> matches[i].match]]])])

(***************************************************************************)
(* PromptGenerator._detect_entry_points (core/prompt_generator.py)         *)
(***************************************************************************)
\* PromptGenerator._detect_entry_points, patterns, in declaration order
KeywordPatterns ==
    << [type |-> "Python FastAPI/Flask", keywords |-> <<"@app.", "@router.", "@bp.route">>],
       [type |-> "JavaScript/TypeScript Express",
        keywords |-> <<"app.get", "app.post", "router.get", "router.post">>],
       [type |-> "Python Django", keywords |-> <<"def get(", "def post(", "path(">>],
       [type |-> "CLI Commands", keywords |-> <<"@click.", "@typer.", "argparse">>],
       [type |-> "Event Handlers", keywords |-> <<"@event.", ".on(", "addEventListener">>],
       [type |-> "Scheduled Jobs", keywords |-> <<"@cron", "@schedule", "cron.schedule">>] >>

\* the files the keyword loop gets to read: the rglob("*.py") members without
\* ".venv" in their path that read_text can decode
keyword_candidate(f) ==
    /\ EndsWith(f.name, <<".", "p", "y">>)
    /\ ~Contains(PathStr(f), <<".", "v", "e", "n", "v">>)

keyword_searchable(f) ==
    keyword_candidate(f) /\ ~try_read(f).skipped /\ try_read(f).raised = ""

\* the loop over the files for one keyword; `searched` is what it gets to
\* read, in rglob order.  The `break` after the append leaves the loop over the files, so only
\* the first file that holds the keyword is recorded
keyword_records(type, keyword, searched) ==
    LET hits == SelectSeq(searched, LAMBDA f : LiteralIn(keyword, f))
    IN  IF hits = <<>> THEN <<>>
        ELSE << [type |-> type, file |-> RelPath(hits[1]), pattern |-> keyword] >>

\* PromptGenerator._detect_entry_points
detect_entry_points(searched) ==
    Concat([g \in 1..Len(KeywordPatterns) |->
        Concat([k \in 1..Len(KeywordPatterns[g].keywords) |->
            keyword_records(KeywordPatterns[g].type, KeywordPatterns[g].keywords[k],
                            searched)])])

(***************************************************************************)
(* PromptGenerator: the prompt text (core/prompt_generator.py)             *)
(***************************************************************************)
\* one line of text: the format string of the source and the values put into
\* it ({project_name}, a joined list or a path, a number)
Line(fmt, str, seq, n) == [fmt |-> fmt, str |-> str, seq |-> seq, n |-> n]
Static(text) == Line(text, "", <<>>, 0)

\* separator.join(list)
RECURSIVE Join(_, _)
Join(separator, list) ==
    IF Len(list) <= 1 THEN list
    ELSE <<Head(list), separator>> \o Join(separator, Tail(list))

Min(a, b) == IF a <= b THEN a ELSE b

\* _format_entry_points, `if not entry_points`
NoEntryPointsLine ==
    Static("_No entry points detected. You'll need to explore the codebase manually._")

\* the keys of the dict `grouped`, in insertion order
RECURSIVE grouped_types(_)
grouped_types(entry_points) ==
    IF entry_points = <<>> THEN <<>>
    ELSE LET seen == grouped_types(SubSeq(entry_points, 1, Len(entry_points) - 1))
             ep_type == entry_points[Len(entry_points)].type
         IN  IF InList(ep_type, seen) THEN seen ELSE Append(seen, ep_type)

\* grouped[ep_type]
grouped_files(entry_points, ep_type) ==
    LET of_type == SelectSeq(entry_points, LAMBDA ep : ep.type = ep_type)
    IN  [i \in 1..Len(of_type) |-> of_type[i].file]

\* f"- `{file}`"; the quote stands for the backquote of the source
FileLine(file) == Line("- '{file}'", "", file, 0)

\* files[:5], "Limit to 5 per type"
PerTypeLimit == 5

\* a formatter that never writes the "+N more" line
format_group_truncating(ep_type, group) ==
    <<Line("### {ep_type}", ep_type, <<>>, 0)>>
        \o [i \in 1..Min(Len(group), PerTypeLimit) |-> FileLine(group[i])]
        \o <<Static("")>>

\* _format_entry_points, the body of `for ep_type, files in grouped.items()`
format_group(ep_type, group) ==
    <<Line("### {ep_type}", ep_type, <<>>, 0)>>
        \o [i \in 1..Min(Len(group), PerTypeLimit) |-> FileLine(group[i])]
        \o (IF Len(group) > PerTypeLimit
            THEN <<Line("- _(+{len(files) - 5} more)_", "", <<>>, Len(group) - PerTypeLimit)>>
            ELSE <<>>)
        \o <<Static("")>>

\* PromptGenerator._format_entry_points: the lines joined with "\n"
format_entry_points(entry_points) ==
    IF entry_points = <<>> THEN <<NoEntryPointsLine>>
    ELSE LET types == grouped_types(entry_points)
         IN  Concat([i \in 1..Len(types) |->
                 format_group(types[i], grouped_files(entry_points, types[i]))])

\* a prompt that carries the time it was generated at
prompt_text_dated(project_name, languages, entry_points) ==
    << Static("# Business Logic Workflow Analysis"),
       Line("- **Generated**: {datetime.now()}", "", <<>>, now) >>
        \o format_entry_points(entry_points)

\* generate_analysis_prompt, the f-string `prompt`: the lines that depend on
\* the project, and one line for each run of lines that do not
prompt_text(project_name, languages, entry_points) ==
    << Static("# Business Logic Workflow Analysis"),
       Line("You are analyzing the codebase of **{project_name}** ...", project_name, <<>>, 0),
       Static("## Project Context"),
       Line("- **Project Name**: {project_name}", project_name, <<>>, 0),
       Line("- **Languages**: {...}", "",
            IF languages # <<>> THEN Join(", ", languages) ELSE <<"Auto-detect">>, 0),
       Line("- **Entry Points**: {len(entry_points)} detected", "", <<>>, Len(entry_points)),
       Static("## Your Task"),
       Static("## Output Format"),
       Static("## Detected Entry Points") >>
        \o format_entry_points(entry_points)
        \o << Static("## Analysis Guidelines"),
              Static("## Getting Started"),
              Static("## Questions to Ask") >>

\* the entry point lists handed to _format_entry_points: the records come kind
\* by kind in table order, keyword by keyword, file by file
MaxGroup == 7       \* records of one kind in a list
MaxKinds == 2       \* kinds that have records in a list

DiscoveryOrder ==
    << <<"a", ".", "p", "y">>,
       <<"t", "e", "s", "t", "s", "/", "c", ".", "p", "y">>,
       <<"d", "i", "s", "t", "/", "d", ".", "p", "y">> >>

records_of_kind(g, n) ==
    [j \in 1..n |->
        [type |-> KeywordPatterns[g].type,
         file |-> DiscoveryOrder[((j - 1) % Len(DiscoveryOrder)) + 1],
         pattern |-> LET keywords == KeywordPatterns[g].keywords
                     IN  keywords[(((j - 1) \div Len(DiscoveryOrder)) % Len(keywords)) + 1]]]

EntryPointLists ==
    UNION { { Concat([g \in 1..Len(KeywordPatterns) |->
                 IF g \in kinds THEN records_of_kind(g, count[g]) ELSE <<>>]) :
              count \in [kinds -> 1..MaxGroup] } :
            kinds \in {K \in SUBSET (1..Len(KeywordPatterns)) : Cardinality(K) <= MaxKinds} }

(***************************************************************************)
(* The scan passes                                                         *)
(***************************************************************************)
NoCounts == [total |-> 0, source |-> 0, test |-> 0, config |-> 0]
\* the previous run of generate_analysis_prompt: what it read and what it returned
NoRun == [pass |-> "none", entry_points |-> <<>>, config |-> <<>>, text |-> <<>>, at |-> 0]
RunOf(s) == [pass |-> s.pass, entry_points |-> s.entry_points, config |-> s.config,
             text |-> s.text, at |-> s.at]

NoScan == [pass |-> "none", files |-> {}, languages |-> <<>>, counts |-> NoCounts,
           frameworks |-> <<>>, entry_points |-> <<>>, text |-> <<>>, config |-> <<>>,
           raised |-> "", at |-> 0, previous |-> NoRun]

FilesOf(records) == {records[i].file : i \in 1..Len(records)}

(***************************************************************************)
(* The store on disk                                                       *)
(***************************************************************************)
MD == <<".", "m", "d">>

EmptyMap == <<>>                       \* the dict {}
Get(map, key, default) == IF key \in DOMAIN map THEN map[key] ELSE default

AbsentConfig == [kind |-> "absent", data |-> EmptyMap]
MalformedConfig == [kind |-> "malformed", data |-> EmptyMap]
AbsentIndex == [kind |-> "absent", project_name |-> "", last_updated |-> 0]

RootName == "proj"                      \* self.project_root.name
ProjectNames == {"", "shop"}            \* "" stands for project_name=None

\* the names handed to add_workflow
WorkflowNames ==
    { <<"A", " ", "b">>,
      <<"a", "-", "b">>,
      <<"a", TAB, "b">>,
      <<"_", "c">>,
      <<"b">>,
      <<".", ".", "/", "c">> }

\* WorkflowManager.is_initialized
is_initialized(bd, cf, wd) == bd /\ cf.kind # "absent" /\ wd

\* a sanitizer that forgets to lower-case
safe_name_no_lower(workflow_name) == Replace(workflow_name, " ", "-")

\* add_workflow, "Sanitize workflow name": workflow_name.lower().replace(" ", "-")
safe_name_of(workflow_name) == Replace(Lower(workflow_name), " ", "-")

\* the directory a path component leads to; the directories below the project
\* root are .business-logic, workflows and annotations, none of which can be
\* spelled with Chars, so a named component leads nowhere
ParentDir(dir) ==
    CASE dir = "workflows" -> "buslog"
      [] dir = "buslog" -> "project"
      [] OTHER -> "outside"

StepDir(dir, comp) ==
    IF dir = "missing" THEN "missing"
    ELSE IF comp = <<>> \/ comp = <<".">> THEN dir
    ELSE IF comp = <<".", ".">> THEN ParentDir(dir)
    ELSE "missing"

RECURSIVE WalkDirs(_, _)
WalkDirs(dir, comps) ==
    IF comps = <<>> THEN dir ELSE WalkDirs(StepDir(dir, Head(comps)), Tail(comps))

\* self.workflows_path / f"{safe_name}.md", as the operating system resolves it
workflow_path_of(safe_name) ==
    LET comps == Split(safe_name \o MD, "/")
        start == IF Len(safe_name) > 0 /\ safe_name[1] = "/" THEN "outside" ELSE "workflows"
    IN  [dir |-> WalkDirs(start, SubSeq(comps, 1, Len(comps) - 1)),
         name |-> comps[Len(comps)]]

\* Path.exists()
path_exists(path, wd, fs) ==
    wd /\ \E f \in fs : f.dir = path.dir /\ f.name = path.name

\* the directory of the path exists, so that write_text can create the file
path_writable(path, wd) == wd /\ path.dir # "missing"

\* add_workflow, "Replace placeholders" and "Write workflow file"
write_workflow_file(fs, path, workflow_name, date) ==
    fs \cup {[dir |-> path.dir, name |-> path.name,
              title |-> Title(Replace(workflow_name, "-", " ")), date |-> date]}

\* a get_config that coerces a missing config.json to defaults
get_config_defaults(cf) == IF cf.kind = "absent" THEN [workflows |-> <<>>] ELSE cf.data

\* WorkflowManager.get_config on a readable config.json
get_config_of(cf) == IF cf.kind = "absent" THEN EmptyMap ELSE cf.data

\* WorkflowManager._add_workflow_to_config, on the dict read by get_config
add_to_config_dict(config, workflow_name) ==
    [k \in DOMAIN config \cup {"workflows"} |->
        IF k = "workflows"
        THEN Append(Get(config, "workflows", <<>>), workflow_name)
        ELSE config[k]]

\* an _add_workflow_to_config that appends to what is on disk at write time
add_workflow_to_config_on_disk(cf, config, workflow_name) ==
    IF ~InList(workflow_name, Get(cf.data, "workflows", <<>>))
    THEN [kind |-> "json", data |-> add_to_config_dict(cf.data, workflow_name)]
    ELSE cf

\* the config.json that _add_workflow_to_config leaves, given the dict it read
add_workflow_to_config(cf, config, workflow_name) ==
    IF ~InList(workflow_name, Get(config, "workflows", <<>>))
    THEN [kind |-> "json", data |-> add_to_config_dict(config, workflow_name)]
    ELSE cf

\* WorkflowManager._detect_languages, language_extensions
WMLanguageExtensions ==
    { [ext |-> <<".", "p", "y">>, lang |-> "Python"],
      [ext |-> <<".", "j", "s">>, lang |-> "JavaScript"],
      [ext |-> <<".", "t", "s">>, lang |-> "TypeScript"],
      [ext |-> <<".", "j", "a", "v", "a">>, lang |-> "Java"],
      [ext |-> <<".", "g", "o">>, lang |-> "Go"],
      [ext |-> <<".", "r", "s">>, lang |-> "Rust"],
      [ext |-> <<".", "r", "b">>, lang |-> "Ruby"],
      [ext |-> <<".", "p", "h", "p">>, lang |-> "PHP"],
      [ext |-> <<".", "c", "s">>, lang |-> "C#"],
      [ext |-> <<".", "c", "p", "p">>, lang |-> "C++"],
      [ext |-> <<".", "c">>, lang |-> "C"] }

\* the language names in the order sorted() puts them in
WMLanguagesSorted ==
    <<"C", "C#", "C++", "Go", "Java", "JavaScript", "PHP", "Python", "Ruby", "Rust",
      "TypeScript">>

\* WorkflowManager._detect_languages
wm_detect_languages(tr) ==
    LET detected == {e.lang : e \in {x \in WMLanguageExtensions : rglob_ext(tr, x.ext) # {}}}
    IN  SelectSeq(WMLanguagesSorted, LAMBDA lang : lang \in detected)

\* initialize, "Create config.json"
fresh_config(project_name, created_at) ==
    [project_name |-> IF project_name = "" THEN RootName ELSE project_name,
     version |-> "0.1.0",
     created_at |-> created_at,
     languages |-> wm_detect_languages(tree),
     frameworks |-> <<>>,
     workflows |-> <<>>,
     settings |-> [auto_detect |-> FALSE, mermaid_theme |-> "default",
                   show_line_numbers |-> TRUE, collapse_by_default |-> FALSE],
     metadata |-> [repository |-> "", main_branch |-> "main", authors |-> <<>>]]

NoRet == [map |-> EmptyMap, list |-> <<>>]
Call(op, name, force, outcome, ret) ==
    [op |-> op, name |-> name, force |-> force, outcome |-> outcome, ret |-> ret]

(***************************************************************************)
(* list_workflows                                                          *)
(***************************************************************************)
workflow_record(f) == [name |-> Title(Replace(Stem(f.name), "-", " ")), file |-> f.name]

\* sorted(workflows, key=lambda w: w["name"]): stable, comparing str with <
RECURSIVE InsertSorted(_, _)
InsertSorted(x, s) ==
    IF s = <<>> THEN <<x>>
    ELSE IF StrLess(x.name, Head(s).name) THEN <<x>> \o s
    ELSE <<Head(s)>> \o InsertSorted(x, Tail(s))

RECURSIVE Sorted(_)
Sorted(s) ==
    IF s = <<>> THEN <<>>
    ELSE InsertSorted(s[Len(s)], Sorted(SubSeq(s, 1, Len(s) - 1)))

glob_md(fs) == {f \in fs : f.dir = "workflows"
                           /\ Len(f.name) >= 3
                           /\ SubSeq(f.name, Len(f.name) - 2, Len(f.name)) = MD}

\* a list_workflows that returns the records in glob order
list_workflows_unsorted(order) == [i \in 1..Len(order) |-> workflow_record(order[i])]

list_workflows_of(order) == Sorted([i \in 1..Len(order) |-> workflow_record(order[i])])

(***************************************************************************)
(* The store operations, one call at a time (single writer)                *)
(***************************************************************************)
Writers == {"w1", "w2"}
IdleLocal == [workflow_name |-> <<>>, safe_name |-> <<>>, config |-> EmptyMap]

NoWriters ==
    /\ pc = [w \in Writers |-> "idle"]
    /\ local = [w \in Writers |-> IdleLocal]

\* an initialize that clears the workflows folder before it recreates it
initialize_writes_wipe(project_name, force) ==
    /\ buslog_dir' = TRUE
    /\ workflows_dir' = TRUE
    /\ config_file' = [kind |-> "json", data |-> fresh_config(project_name, now)]
    /\ index_file' = [kind |-> "text",
                      project_name |-> IF project_name = "" THEN RootName ELSE project_name,
                      last_updated |-> now]
    /\ files' = files \ glob_md(files)
    /\ last' = Call("initialize", <<>>, force, "ok", NoRet)

\* initialize, from "Create directories" to "Create index.md"
initialize_writes(project_name, force) ==
    /\ buslog_dir' = TRUE
    /\ workflows_dir' = TRUE
    /\ config_file' = [kind |-> "json", data |-> fresh_config(project_name, now)]
    /\ index_file' = [kind |-> "text",
                      project_name |-> IF project_name = "" THEN RootName ELSE project_name,
                      last_updated |-> now]
    /\ UNCHANGED files
    /\ last' = Call("initialize", <<>>, force, "ok", NoRet)

\* an initialize without the already-initialized guard
Initialize_unguarded(project_name, force) ==
    /\ now < MaxClock
    /\ now' = now + 1
    /\ initialize_writes(project_name, force)
    /\ UNCHANGED <<added, pc, local, tree, scan>>

\* an initialize that refuses whenever .business-logic exists
Initialize_dir_guard(project_name, force) ==
    /\ now < MaxClock
    /\ now' = now + 1
    /\ IF buslog_dir /\ ~force
       THEN /\ last' = Call("initialize", <<>>, force, "FileExistsError", NoRet)
            /\ UNCHANGED storeVars
       ELSE initialize_writes(project_name, force)
    /\ UNCHANGED <<added, pc, local, tree, scan>>

\* WorkflowManager.initialize(project_name, force)
Initialize(project_name, force) ==
    /\ now < MaxClock
    /\ now' = now + 1
    /\ IF is_initialized(buslog_dir, config_file, workflows_dir) /\ ~force
       THEN /\ last' = Call("initialize", <<>>, force, "FileExistsError", NoRet)
            /\ UNCHANGED storeVars
       ELSE initialize_writes(project_name, force)
    /\ UNCHANGED <<added, pc, local, tree, scan>>

\* WorkflowManager.add_workflow(workflow_name)
AddWorkflow(workflow_name) ==
    LET safe_name == safe_name_of(workflow_name)
        workflow_path == workflow_path_of(safe_name)
        written == write_workflow_file(files, workflow_path, workflow_name, now)
    IN  /\ now < MaxClock
        /\ now' = now + 1
        /\ UNCHANGED <<buslog_dir, workflows_dir, index_file, pc, local, tree, scan>>
        /\ IF path_exists(workflow_path, workflows_dir, files)
           THEN /\ last' = Call("add_workflow", workflow_name, FALSE, "FileExistsError", NoRet)
                /\ UNCHANGED <<files, config_file, added>>
           ELSE IF ~path_writable(workflow_path, workflows_dir)
           THEN /\ last' = Call("add_workflow", workflow_name, FALSE, "FileNotFoundError", NoRet)
                /\ UNCHANGED <<files, config_file, added>>
           ELSE IF config_file.kind = "malformed"
           THEN \* the document is written, then json.loads raises in get_config
                /\ files' = written
                /\ last' = Call("add_workflow", workflow_name, FALSE, "JSONDecodeError", NoRet)
                /\ UNCHANGED <<config_file, added>>
           ELSE /\ files' = written
                /\ config_file' = add_workflow_to_config(config_file,
                                                         get_config_of(config_file), safe_name)
                /\ added' = added \cup {workflow_name}
                /\ last' = Call("add_workflow", workflow_name, FALSE, "ok", NoRet)

\* cli.add, `buslog add <workflow_name>`: exits with status 1 when the store is
\* not initialized, calls manager.add_workflow otherwise
CliAdd(workflow_name) ==
    IF ~is_initialized(buslog_dir, config_file, workflows_dir)
    THEN /\ last' = Call("cli_add", workflow_name, FALSE, "SystemExit", NoRet)
         /\ UNCHANGED <<storeVars, now, added, pc, local, tree, scan>>
    ELSE AddWorkflow(workflow_name)

\* WorkflowManager.list_workflows()
ListWorkflows ==
    /\ IF ~workflows_dir
       THEN last' = Call("list_workflows", <<>>, FALSE, "ok", NoRet)
       ELSE \E order \in Orders(glob_md(files)) :
               last' = Call("list_workflows", <<>>, FALSE, "ok",
                            [map |-> EmptyMap, list |-> list_workflows_of(order)])
    /\ UNCHANGED <<storeVars, now, added, pc, local, tree, scan>>

\* WorkflowManager.get_config()
GetConfig ==
    /\ IF config_file.kind = "malformed"
       THEN last' = Call("get_config", <<>>, FALSE, "JSONDecodeError", NoRet)
       ELSE last' = Call("get_config", <<>>, FALSE, "ok",
                         [map |-> get_config_of(config_file), list |-> <<>>])
    /\ UNCHANGED <<storeVars, now, added, pc, local, tree, scan>>

NoCall == Call("none", <<>>, FALSE, "ok", NoRet)

\* a project in which buslog was never run
Init ==
    /\ buslog_dir = FALSE
    /\ workflows_dir = FALSE
    /\ config_file = AbsentConfig
    /\ index_file = AbsentIndex
    /\ files = {}
    /\ now = 0
    /\ last = NoCall
    /\ added = {}
    /\ NoWriters
    /\ tree = {}
    /\ scan = NoScan

Next ==
    \/ \E project_name \in ProjectNames, force \in BOOLEAN : Initialize(project_name, force)
    \/ \E workflow_name \in WorkflowNames : AddWorkflow(workflow_name)
    \/ \E workflow_name \in WorkflowNames : CliAdd(workflow_name)
    \/ ListWorkflows
    \/ GetConfig

Spec == Init /\ [][Next]_vars

\* a project whose .business-logic folder is in any state of completeness:
\* missing, partly there, or left by an earlier initialize at time 0
InitAnyStore ==
    /\ tree = {}
    /\ buslog_dir \in BOOLEAN
    /\ workflows_dir \in BOOLEAN
    /\ workflows_dir => buslog_dir
    /\ config_file \in {AbsentConfig, [kind |-> "json", data |-> fresh_config("", 0)]}
    /\ config_file.kind # "absent" => buslog_dir
    /\ index_file \in {AbsentIndex,
                       [kind |-> "text", project_name |-> RootName, last_updated |-> 0]}
    /\ index_file.kind # "absent" => buslog_dir
    /\ files = {}
    /\ now = 1
    /\ last = NoCall
    /\ added = {}
    /\ NoWriters
    /\ scan = NoScan

SpecAnyStore == InitAnyStore /\ [][Next]_vars

\* an initialized store whose config.json no longer holds JSON
InitMalformed ==
    /\ tree = {}
    /\ buslog_dir = TRUE
    /\ workflows_dir = TRUE
    /\ config_file = MalformedConfig
    /\ index_file = [kind |-> "text", project_name |-> RootName, last_updated |-> 0]
    /\ files = {}
    /\ now = 1
    /\ last = NoCall
    /\ added = {}
    /\ NoWriters
    /\ scan = NoScan

SpecMalformed == InitMalformed /\ [][Next]_vars

TypeOK ==
    /\ buslog_dir \in BOOLEAN
    /\ workflows_dir \in BOOLEAN
    /\ config_file.kind \in {"absent", "json", "malformed"}
    /\ now \in 0..MaxClock

(***************************************************************************)
(* add_workflow statement by statement, for writers that are not           *)
(* serialized.  Each file system call (exists, write_text, read_text) is   *)
(* one step.                                                               *)
(***************************************************************************)
SetLocal(w, l) == [local EXCEPT ![w] = l]
Goto(w, label) == [pc EXCEPT ![w] = label]

\* add_workflow lines 93-98: sanitize, build the path, test workflow_path.exists()
AddBegin(w, workflow_name) ==
    LET safe_name == safe_name_of(workflow_name)
    IN  /\ pc[w] = "idle"
        /\ now < MaxClock
        /\ now' = now + 1
        /\ IF path_exists(workflow_path_of(safe_name), workflows_dir, files)
           THEN /\ last' = Call("add_workflow", workflow_name, FALSE, "FileExistsError", NoRet)
                /\ UNCHANGED <<pc, local>>
           ELSE /\ pc' = Goto(w, "write_file")
                /\ local' = SetLocal(w, [workflow_name |-> workflow_name,
                                         safe_name |-> safe_name, config |-> EmptyMap])
                /\ UNCHANGED last
        /\ UNCHANGED <<storeVars, added, tree, scan>>

\* add_workflow lines 100-115: render the template, workflow_path.write_text
AddWriteFile(w) ==
    LET workflow_path == workflow_path_of(local[w].safe_name)
    IN  /\ pc[w] = "write_file"
        /\ IF ~path_writable(workflow_path, workflows_dir)
           THEN /\ last' = Call("add_workflow", local[w].workflow_name, FALSE,
                                "FileNotFoundError", NoRet)
                /\ pc' = Goto(w, "idle")
                /\ local' = SetLocal(w, IdleLocal)
                /\ UNCHANGED files
           ELSE /\ files' = write_workflow_file(
                                {f \in files : ~(f.dir = workflow_path.dir
                                                 /\ f.name = workflow_path.name)},
                                workflow_path, local[w].workflow_name, now)
                /\ pc' = Goto(w, "read_config")
                /\ UNCHANGED <<last, local>>
        /\ UNCHANGED <<buslog_dir, workflows_dir, config_file, index_file, now, added, tree, scan>>

\* _add_workflow_to_config line 209: config = self.get_config()
AddReadConfig(w) ==
    /\ pc[w] = "read_config"
    /\ IF config_file.kind = "malformed"
       THEN /\ last' = Call("add_workflow", local[w].workflow_name, FALSE,
                            "JSONDecodeError", NoRet)
            /\ pc' = Goto(w, "idle")
            /\ local' = SetLocal(w, IdleLocal)
       ELSE /\ local' = SetLocal(w, [local[w] EXCEPT !.config = get_config_of(config_file)])
            /\ pc' = Goto(w, "write_config")
            /\ UNCHANGED last
    /\ UNCHANGED <<storeVars, now, added, tree, scan>>

\* _add_workflow_to_config lines 211-216, then add_workflow returns
AddWriteConfig(w) ==
    /\ pc[w] = "write_config"
    /\ config_file' = add_workflow_to_config(config_file, local[w].config, local[w].safe_name)
    /\ added' = added \cup {local[w].workflow_name}
    /\ last' = Call("add_workflow", local[w].workflow_name, FALSE, "ok", NoRet)
    /\ pc' = Goto(w, "idle")
    /\ local' = SetLocal(w, IdleLocal)
    /\ UNCHANGED <<buslog_dir, workflows_dir, index_file, files, now, tree, scan>>

\* the store right after initialize(), with no add_workflow under way
InitRace ==
    /\ tree = {}
    /\ buslog_dir = TRUE
    /\ workflows_dir = TRUE
    /\ config_file = [kind |-> "json", data |-> fresh_config("", 0)]
    /\ index_file = [kind |-> "text", project_name |-> RootName, last_updated |-> 0]
    /\ files = {}
    /\ now = 1
    /\ last = Call("initialize", <<>>, FALSE, "ok", NoRet)
    /\ added = {}
    /\ NoWriters
    /\ scan = NoScan

NextRace ==
    \E w \in Writers :
        \/ \E workflow_name \in WorkflowNames : AddBegin(w, workflow_name)
        \/ AddWriteFile(w)
        \/ AddReadConfig(w)
        \/ AddWriteConfig(w)

SpecRace == InitRace /\ [][NextRace]_vars

(***************************************************************************)
(* The scan passes over a project tree                                     *)
(***************************************************************************)
StoreIdle ==
    UNCHANGED <<buslog_dir, workflows_dir, config_file, index_file, files, now, last,
                added, pc, local, tree>>

\* CodeAnalyzer._detect_languages()
DetectLanguages ==
    /\ scan.pass = "none"
    /\ scan' = [NoScan EXCEPT !.pass = "detect_languages",
                              !.languages = detect_languages(tree),
                              !.files = {RelPath(f) : f \in
                                  UNION {rglob_ext(tree, LanguageExtensions[i].ext) :
                                            i \in 1..Len(LanguageExtensions)}}]
    /\ StoreIdle

\* CodeAnalyzer._count_files()
CountFiles ==
    /\ scan.pass = "none"
    /\ scan' = [NoScan EXCEPT !.pass = "count_files",
                              !.counts = count_files(tree),
                              !.files = {RelPath(f) : f \in {g \in tree : ~is_excluded(g)}}]
    /\ StoreIdle

\* CodeAnalyzer._detect_frameworks()
DetectFrameworks ==
    /\ scan.pass = "none"
    /\ scan' = [NoScan EXCEPT !.pass = "detect_frameworks",
                              !.raised = raised_by({f \in tree : ~is_excluded(f)}),
                              !.frameworks = detect_frameworks(tree),
                              !.files = {RelPath(f) : f \in
                                  UNION {search_patterns_hits({g \in tree : Searchable(g)},
                                                              Indicators[i].patterns) :
                                            i \in 1..Len(Indicators)}}]
    /\ StoreIdle

\* CodeAnalyzer._find_entry_points()
FindEntryPoints ==
    /\ scan.pass = "none"
    /\ \E searched \in Orders({f \in tree : Searchable(f)}) :
          LET entry_points == find_entry_points(searched)
          IN  scan' = [NoScan EXCEPT !.pass = "find_entry_points",
                                     !.raised = raised_by({f \in tree : ~is_excluded(f)}),
                                     !.entry_points = entry_points,
                                     !.files = FilesOf(entry_points)]
    /\ StoreIdle

\* PromptGenerator._detect_entry_points()
DetectEntryPoints ==
    /\ scan.pass = "none"
    /\ \E searched \in Orders({f \in tree : keyword_searchable(f)}) :
          LET entry_points == detect_entry_points(searched)
          IN  scan' = [NoScan EXCEPT !.pass = "detect_entry_points",
                                     !.raised = raised_by({f \in tree : keyword_candidate(f)}),
                                     !.entry_points = entry_points,
                                     !.files = FilesOf(entry_points)]
    /\ StoreIdle

\* any project tree of up to MaxFiles files, before buslog is run in it
InitScan ==
    /\ buslog_dir = FALSE
    /\ workflows_dir = FALSE
    /\ config_file = AbsentConfig
    /\ index_file = AbsentIndex
    /\ files = {}
    /\ now = 0
    /\ last = NoCall
    /\ added = {}
    /\ NoWriters
    /\ \E paths \in SUBSET CandidatePaths :
          /\ Cardinality(paths) <= MaxFiles
          /\ \E st \in [paths -> FileStates] : tree = {MkFile(p, st[p]) : p \in paths}
    /\ scan = NoScan

NextScan ==
    \/ DetectLanguages
    \/ CountFiles
    \/ DetectFrameworks
    \/ FindEntryPoints
    \/ DetectEntryPoints

SpecScan == InitScan /\ [][NextScan]_vars

(***************************************************************************)
(* The entry point section of the prompt, for any entry point list         *)
(***************************************************************************)
\* PromptGenerator._format_entry_points(entry_points)
FormatEntryPoints ==
    /\ scan.pass = "none"
    /\ scan' = [scan EXCEPT !.pass = "format_entry_points",
                            !.text = format_entry_points(scan.entry_points)]
    /\ StoreIdle

\* an entry point list, before it is formatted
InitFormat ==
    /\ buslog_dir = FALSE
    /\ workflows_dir = FALSE
    /\ config_file = AbsentConfig
    /\ index_file = AbsentIndex
    /\ files = {}
    /\ now = 0
    /\ last = NoCall
    /\ added = {}
    /\ NoWriters
    /\ tree = {}
    /\ \E entry_points \in EntryPointLists : scan = [NoScan EXCEPT !.entry_points = entry_points]

NextFormat == FormatEntryPoints

SpecFormat == InitFormat /\ [][NextFormat]_vars

(***************************************************************************)
(* The prompt of a project, generated any number of times                  *)
(***************************************************************************)
\* PromptGenerator.generate_analysis_prompt()
GenerateAnalysisPrompt ==
    /\ IF config_file.kind = "malformed"
       THEN scan' = [NoScan EXCEPT !.pass = "generate_analysis_prompt",
                                   !.raised = "JSONDecodeError",
                                   !.at = now,
                                   !.previous = RunOf(scan)]
       ELSE \E searched \in Orders({f \in tree : keyword_searchable(f)}) :
               LET config == IF config_file.kind = "absent" THEN EmptyMap ELSE config_file.data
                   project_name == Get(config, "project_name", RootName)
                   languages == Get(config, "languages", <<>>)
                   entry_points == detect_entry_points(searched)
               IN  scan' = [NoScan EXCEPT !.pass = "generate_analysis_prompt",
                                          !.raised = raised_by({f \in tree :
                                                                  keyword_candidate(f)}),
                                          !.entry_points = entry_points,
                                          !.files = FilesOf(entry_points),
                                          !.config = config,
                                          !.text = prompt_text(project_name, languages,
                                                               entry_points),
                                          !.at = now,
                                          !.previous = RunOf(scan)]
    /\ StoreIdle

\* a file that holds a click command
ClickFile(path) == MkFile(path, [content |-> <<ClickCommand>>, readable |-> TRUE])

\* a project tree of up to MaxFiles such files outside the excluded
\* directories, before buslog is run in it
InitPrompt ==
    /\ \E paths \in SUBSET {p \in CandidatePaths : ~is_excluded(ClickFile(p))} :
          /\ Cardinality(paths) <= MaxFiles
          /\ tree = {ClickFile(p) : p \in paths}
    /\ buslog_dir = FALSE
    /\ workflows_dir = FALSE
    /\ config_file = AbsentConfig
    /\ index_file = AbsentIndex
    /\ files = {}
    /\ now = 0
    /\ last = NoCall
    /\ added = {}
    /\ NoWriters
    /\ scan = NoScan

NextPrompt ==
    \/ GenerateAnalysisPrompt
    \/ \E project_name \in ProjectNames, force \in BOOLEAN : Initialize(project_name, force)

SpecPrompt == InitPrompt /\ [][NextPrompt]_vars

(***************************************************************************)
(* Properties of the store                                                 *)
(***************************************************************************)
Initialized == buslog_dir /\ workflows_dir /\ config_file.kind # "absent"

\* the `workflows` list of config.json
IndexList == Get(config_file.data, "workflows", <<>>)
IndexIds == {IndexList[i] : i \in 1..Len(IndexList)}

\* the identifiers of the documents in the workflows folder
DocumentIds == {Stem(f.name) : f \in glob_md(files)}

Occurrences(x, seq) == Cardinality({i \in 1..Len(seq) : seq[i] = x})

\* C1: after initialize or add_workflow completes, the `workflows` list of
\* config.json holds exactly the identifiers of the documents in the workflows
\* folder, each once.
C1_IndexMatchesDocuments ==
    last.op \in {"initialize", "add_workflow"} =>
        /\ IndexIds = DocumentIds
        /\ \A id \in IndexIds : Occurrences(id, IndexList) = 1

\* C2: initialize without force on an initialized store fails with
\* FileExistsError and changes neither config.json nor any other store file.
C2_ReinitializeRefused ==
    [][(last'.op = "initialize" /\ ~last'.force /\ Initialized)
          => (last'.outcome = "FileExistsError" /\ UNCHANGED storeVars)]_vars

C2_Witness ==
    /\ last.op = "initialize" /\ ~last.force /\ last.outcome = "FileExistsError"
    /\ config_file.kind = "json"
    /\ config_file.data.created_at < now - 1

\* lower-casing, every whitespace character replaced by a hyphen
WhitespaceNormalized(name) == [i \in 1..Len(name) |->
    IF IsSpace(name[i]) THEN "-" ELSE LowerChar(name[i])]

\* lower-casing, every space character replaced by a hyphen
SpaceNormalized(name) == [i \in 1..Len(name) |->
    IF name[i] = " " THEN "-" ELSE LowerChar(name[i])]

\* C3 as stated: a name that normalizes (lower-casing, whitespace to hyphens)
\* to the identifier of an earlier successful add_workflow is refused with
\* FileExistsError, and the refused call changes no document and not the index.
C3_DuplicateRefused_Whitespace ==
    [][(/\ last'.op = "add_workflow"
        /\ \E m \in added : WhitespaceNormalized(m) = WhitespaceNormalized(last'.name))
          => (last'.outcome = "FileExistsError" /\ UNCHANGED <<files, config_file>>)]_vars

\* C3 amended: a name that normalizes (lower-casing, space characters to
\* hyphens) to the identifier of an earlier successful add_workflow is refused
\* with FileExistsError, and the refused call changes no document and not the
\* index.
C3_DuplicateRefused ==
    [][(/\ last'.op = "add_workflow"
        /\ \E m \in added : SpaceNormalized(m) = SpaceNormalized(last'.name))
          => (last'.outcome = "FileExistsError" /\ UNCHANGED <<files, config_file>>)]_vars

C3_Witness ==
    /\ last.op = "add_workflow" /\ last.outcome = "FileExistsError"
    /\ \E m \in added : m # last.name /\ SpaceNormalized(m) = SpaceNormalized(last.name)

\* C4: after a successful add_workflow the new identifier is the file
\* <identifier>.md of exactly one record of list_workflows() and occurs exactly
\* once in the `workflows` list of config.json.
C4_AddedExactlyOnce ==
    (last.op = "add_workflow" /\ last.outcome = "ok") =>
        LET id == safe_name_of(last.name)
        IN  /\ Occurrences(id, IndexList) = 1
            /\ \A order \in Orders(glob_md(files)) :
                   LET listing == list_workflows_of(order)
                   IN  Cardinality({i \in 1..Len(listing) : listing[i].file = id \o MD}) = 1

\* C5: initialize succeeds exactly when force is set or the store is not
\* initialized, and fails with FileExistsError otherwise; after a successful
\* initialize the root folder, the workflows folder and config.json exist and
\* config.json is a record written by this call with an empty `workflows` list.
C5_Initialize ==
    [][last'.op = "initialize" =>
          /\ (last'.outcome = "ok") <=> (last'.force \/ ~Initialized)
          /\ last'.outcome \in {"ok", "FileExistsError"}
          /\ last'.outcome = "ok" =>
                /\ Initialized'
                /\ config_file'.kind = "json"
                /\ config_file'.data.workflows = <<>>
                /\ config_file'.data.created_at = now]_vars

C5_Witness ==
    /\ last.op = "initialize" /\ last.outcome = "ok" /\ last.force
    /\ Initialized
    /\ glob_md(files) # {}
    /\ config_file.data.workflows = <<>>

\* s is ascending under the key: no record is followed by one with a smaller key
Ascending(s, key(_)) ==
    \A i, j \in 1..Len(s) : i < j => ~StrLess(key(s[j]), key(s[i]))

TitleKey(record) == record.name
LowerTitleKey(record) == Lower(record.name)

OnePerDocument(listing) ==
    /\ Len(listing) = Cardinality(glob_md(files))
    /\ {listing[i].file : i \in 1..Len(listing)} = {f.name : f \in glob_md(files)}

\* C7 as stated: list_workflows() returns one record per document file of the
\* workflows folder, whatever the config index holds, in ascending order of
\* the titles compared case-insensitively.
C7_ListSortedIgnoringCase ==
    last.op = "list_workflows" =>
        /\ OnePerDocument(last.ret.list)
        /\ Ascending(last.ret.list, LowerTitleKey)

\* C7 amended: list_workflows() returns one record per document file of the
\* workflows folder, whatever the config index holds, in ascending order of
\* the titles compared by code point.
C7_ListSorted ==
    last.op = "list_workflows" =>
        /\ OnePerDocument(last.ret.list)
        /\ Ascending(last.ret.list, TitleKey)

C7_Witness ==
    /\ last.op = "list_workflows"
    /\ Len(last.ret.list) >= 2
    /\ IndexIds # DocumentIds

\* C8 as stated: get_config() returns the content of config.json when the
\* store is initialized, and returns the empty map without raising when the
\* root folder, config.json or the workflows folder is missing.
C8_EmptyMapWhenUninitialized ==
    last.op = "get_config" =>
        IF Initialized
        THEN last.outcome = "ok" /\ last.ret.map = config_file.data
        ELSE last.outcome = "ok" /\ last.ret.map = EmptyMap

\* C8 amended: get_config() returns the content of config.json whenever that
\* file exists and holds JSON, whether or not the workflows folder exists, and
\* returns the empty map without raising exactly when config.json is missing.
C8_EmptyMapWhenConfigMissing ==
    last.op = "get_config" =>
        /\ config_file.kind = "absent" => (last.outcome = "ok" /\ last.ret.map = EmptyMap)
        /\ config_file.kind = "json" =>
              (last.outcome = "ok" /\ last.ret.map = config_file.data /\ last.ret.map # EmptyMap)

C8_Witness ==
    /\ last.op = "get_config" /\ last.outcome = "ok"
    /\ ~Initialized
    /\ last.ret.map # EmptyMap


(***************************************************************************)
(* Writers that are not serialized                                         *)
(***************************************************************************)
ListOf(map) == Get(map, "workflows", <<>>)
IdsOf(map) == {ListOf(map)[i] : i \in 1..Len(ListOf(map))}

\* C6: _add_workflow_to_config writes back the whole record it read earlier:
\* when a writer completes, the `workflows` list on disk is the list it read
\* plus its own identifier, so every identifier another writer stored in
\* between is gone from config.json (while that writer's document stays).
C6_LostUpdate ==
    [][\A w \in Writers :
          (/\ pc[w] = "write_config" /\ pc'[w] = "idle"
           /\ local[w].safe_name \notin IdsOf(local[w].config))
            => /\ IndexList' = Append(ListOf(local[w].config), local[w].safe_name)
               /\ \A id \in IndexIds \ IdsOf(local[w].config) :
                     id # local[w].safe_name => id \notin IndexIds']_vars

\* both calls returned successfully, both documents are in the workflows
\* folder, and config.json lists only one of the two identifiers
C6_Witness ==
    /\ \A w \in Writers : pc[w] = "idle"
    /\ \E m, n \in added :
          /\ safe_name_of(m) # safe_name_of(n)
          /\ {safe_name_of(m), safe_name_of(n)} \subseteq DocumentIds
          /\ safe_name_of(m) \in IndexIds
          /\ safe_name_of(n) \notin IndexIds
          /\ Len(IndexList) = 1


(***************************************************************************)
(* Properties of the scan passes                                           *)
(***************************************************************************)
\* the directory names that mark an excluded directory
ExcludedMarkers == {ExcludedPatterns[i] : i \in 1..Len(ExcludedPatterns)}

\* the file of this relative path lies in a directory named by a marker
InExcludedDirectory(path) ==
    LET parts == Split(path, "/")
    IN  \E i \in 1..(Len(parts) - 1) : parts[i] \in ExcludedMarkers

RecordsOfType(records, type) == SelectSeq(records, LAMBDA r : r.type = type)

\* two files that every content scan reads, one holding the @click.command()
\* pattern twice and one holding it once
TwiceAndOnce ==
    /\ Cardinality(tree) = 2
    /\ \A f \in tree : Searchable(f) /\ keyword_searchable(f)
    /\ \E f, g \in tree : /\ f.content = <<ClickCommand, ClickCommand>>
                          /\ g.content = <<ClickCommand>>

\* C9: over two files, one holding the pattern twice and one holding it once,
\* the entry-point enumeration returns exactly two records for the pattern
\* group, one per file.
C9_OneRecordPerFile ==
    (scan.pass \in {"find_entry_points", "detect_entry_points"} /\ TwiceAndOnce) =>
        LET type == IF scan.pass = "find_entry_points" THEN "CLI Command" ELSE "CLI Commands"
            records == RecordsOfType(scan.entry_points, type)
        IN  /\ Len(records) = 2
            /\ FilesOf(records) = {RelPath(f) : f \in tree}

\* C10: no scan pass returns or counts a file that lies in an excluded-marker
\* directory, and every file it returns is a file of the scanned tree.
C10_NoExcludedFile ==
    \A path \in scan.files :
        /\ ~InExcludedDirectory(path)
        /\ \E f \in tree : RelPath(f) = path

(***************************************************************************)
(* Properties of the prompt                                                *)
(***************************************************************************)
\* the kinds of the pattern table, in declaration order
TableKinds == [g \in 1..Len(KeywordPatterns) |-> KeywordPatterns[g].type]

IsHeading(line) == line.fmt = "### {ep_type}"
IsFile(line) == line.fmt = "- '{file}'"
IsMore(line) == line.fmt = "- _(+{len(files) - 5} more)_"

\* the positions of the group headings in a text
HeadingsAt(text) == SelectSeq([i \in 1..Len(text) |-> i], LAMBDA i : IsHeading(text[i]))

\* the lines below the i-th heading, up to the next heading
GroupLines(text, i) ==
    LET at == HeadingsAt(text)
    IN  SubSeq(text, at[i] + 1, IF i < Len(at) THEN at[i + 1] - 1 ELSE Len(text))

\* C11: the entry point section has one group per kind that has records, the
\* groups in pattern-table order; a group lists the first 5 files of its kind
\* in discovery order and, when the kind has k > 5 records, exactly one
\* "+N more" line with N = k - 5, none otherwise; an empty list renders the
\* placeholder line and nothing else.
C11_EntryPointSection ==
    scan.pass = "format_entry_points" =>
        LET text == scan.text
            kinds == SelectSeq(TableKinds,
                               LAMBDA t : RecordsOfType(scan.entry_points, t) # <<>>)
        IN  IF scan.entry_points = <<>> THEN text = <<NoEntryPointsLine>>
            ELSE /\ \A i \in 1..Len(text) : text[i] # NoEntryPointsLine
                 /\ Len(HeadingsAt(text)) = Len(kinds)
                 /\ \A i \in 1..Len(kinds) :
                       LET records == RecordsOfType(scan.entry_points, kinds[i])
                           k == Len(records)
                           shown == SelectSeq(GroupLines(text, i), IsFile)
                           more == SelectSeq(GroupLines(text, i), IsMore)
                       IN  /\ text[HeadingsAt(text)[i]].str = kinds[i]
                           /\ Len(shown) = Min(k, 5)
                           /\ \A j \in 1..Len(shown) : shown[j].seq = records[j].file
                           /\ IF k > 5 THEN Len(more) = 1 /\ more[1].n = k - 5
                              ELSE more = <<>>

\* a formatted list with two groups, one of 7 records (so "+2 more") and one
\* of at most 5
C11_Witness ==
    /\ scan.pass = "format_entry_points"
    /\ Len(HeadingsAt(scan.text)) = 2
    /\ \E i \in 1..Len(scan.text) : IsMore(scan.text[i]) /\ scan.text[i].n = 2
    /\ \E t \in {TableKinds[g] : g \in 1..Len(TableKinds)} :
          Len(RecordsOfType(scan.entry_points, t)) \in 1..5

\* the last two runs of generate_analysis_prompt were given the same entry
\* point list and the same config record
SameInputsTwice ==
    /\ scan.pass = "generate_analysis_prompt" /\ scan.raised = ""
    /\ scan.previous.pass = "generate_analysis_prompt"
    /\ scan.previous.entry_points = scan.entry_points
    /\ scan.previous.config = scan.config

Readable(tr) == {f \in tr : f.readable}

\* C13: no content scan is aborted by a file that cannot be read: the
\* framework test and both entry point enumerations complete, and they return
\* what they return for the same tree with the unreadable files removed.
C13_UnreadableSkipped ==
    /\ scan.pass \in {"detect_frameworks", "find_entry_points", "detect_entry_points"}
          => scan.raised = ""
    /\ scan.pass = "detect_frameworks"
          => scan.frameworks = detect_frameworks(Readable(tree))
    /\ scan.pass = "find_entry_points"
          => \E order \in Orders({f \in Readable(tree) : ~is_excluded(f)}) :
                scan.entry_points = find_entry_points(order)
    /\ scan.pass = "detect_entry_points"
          => \E order \in Orders({f \in Readable(tree) : keyword_candidate(f)}) :
                scan.entry_points = detect_entry_points(order)

\* an enumeration that returned records from a tree in which a file outside
\* the excluded directories cannot be read
C13_Witness ==
    /\ scan.pass \in {"find_entry_points", "detect_entry_points"}
    /\ scan.entry_points # <<>>
    /\ \E f \in tree : ~f.readable /\ ~is_excluded(f) /\ keyword_candidate(f)

\* the files the scanner retains: those in no directory named by a marker
Retained(tr) == {f \in tr : ~InExcludedDirectory(RelPath(f))}

\* the file name or the name of an ancestor directory contains "test"
TestNamed(f) ==
    \/ Contains(Lower(f.name), <<"t", "e", "s", "t">>)
    \/ \E i \in 1..Len(f.dirs) : Contains(Lower(f.dirs[i]), <<"t", "e", "s", "t">>)

\* the retained files of a language, by the extension table
RetainedOf(lang) ==
    {f \in Retained(tree) :
        \E i \in 1..Len(LanguageExtensions) :
            LanguageExtensions[i].lang = lang /\ SuffixOf(f.name) = LanguageExtensions[i].ext}

TableIndex(lang) ==
    CHOOSE i \in 1..Len(LanguageExtensions) : LanguageExtensions[i].lang = lang

\* the counts of the retained files
C14_Counts ==
    scan.pass = "count_files" =>
        scan.counts =
            [total |-> Cardinality(Retained(tree)),
             source |-> Cardinality({f \in Retained(tree) : SuffixOf(f.name) \in SourceSuffixes}),
             test |-> Cardinality({f \in Retained(tree) : TestNamed(f)}),
             config |-> Cardinality({f \in Retained(tree) : SuffixOf(f.name) \in ConfigSuffixes})]

\* the languages of the retained files, most files first, ties in table order
C14_Ranking ==
    scan.pass = "detect_languages" =>
        LET ranked == scan.languages
        IN  /\ {ranked[i] : i \in 1..Len(ranked)} =
                  {LanguageExtensions[i].lang : i \in
                      {j \in 1..Len(LanguageExtensions) :
                          RetainedOf(LanguageExtensions[j].lang) # {}}}
            /\ \A i, j \in 1..Len(ranked) :
                  i < j =>
                     LET ci == Cardinality(RetainedOf(ranked[i]))
                         cj == Cardinality(RetainedOf(ranked[j]))
                     IN  ci > cj \/ (ci = cj /\ TableIndex(ranked[i]) < TableIndex(ranked[j]))

\* the tree a.py, b.js, tests/c.py
ScenarioTree ==
    {RelPath(f) : f \in tree} =
        { <<"a", ".", "p", "y">>,
          <<"b", ".", "j", "s">>,
          <<"t", "e", "s", "t", "s", "/", "c", ".", "p", "y">> }

C14_Scenario ==
    ScenarioTree =>
        /\ scan.pass = "count_files"
              => scan.counts = [total |-> 3, source |-> 3, test |-> 1, config |-> 0]
        /\ scan.pass = "detect_languages" => scan.languages = <<"Python", "JavaScript">>

\* C14: file_counts.total is the number of retained files and source, test
\* and config count the retained files of each category, `test` being decided
\* by the file name and the names of the ancestor directories; the languages
\* are those of the retained files, ranked by file count descending, ties in
\* extension-table order; a.py, b.js, tests/c.py give {total: 3, source: 3,
\* test: 1, config: 0} and ["Python", "JavaScript"].
C14_CountsAndRanking == C14_Counts /\ C14_Ranking /\ C14_Scenario

(***************************************************************************)
(* Properties of the store: re-initialization, uninitialized stores,       *)
(* failing calls                                                           *)
(***************************************************************************)
\* the last call was a successful initialize(force=True) on a store that
\* holds workflow documents
ForcedOverDocuments ==
    /\ last.op = "initialize" /\ last.force /\ last.outcome = "ok"
    /\ glob_md(files) # {}

\* C15: a force re-initialize on a store that holds workflow documents empties
\* the `workflows` list and leaves the documents alone, so the index differs
\* from the documents; the next successful add_workflow ends the difference:
\* after it the index holds exactly the identifiers of the documents.
C15_DriftUntilNextAdd ==
    [][/\ ForcedOverDocuments' =>
              (IndexList' = <<>> /\ files' = files /\ IndexIds' # DocumentIds')
       /\ (ForcedOverDocuments /\ last'.op = "add_workflow" /\ last'.outcome = "ok") =>
              IndexIds' = DocumentIds']_vars

\* C16: add_workflow on a store that is not initialized (the root folder, the
\* workflows folder or config.json is missing) fails, creates no document and
\* no config.json, and leaves the store uninitialized.
C16_AddRequiresInitialized ==
    [][(last'.op = "add_workflow" /\ ~Initialized) =>
          /\ last'.outcome \in {"NotInitialized", "FileNotFoundError"}
          /\ files' = files
          /\ config_file' = config_file
          /\ ~Initialized']_vars

\* the `buslog add` command on a store that is not initialized changes nothing
CliAddRefuses ==
    [][last'.op = "cli_add" =>
          (~Initialized /\ last'.outcome = "SystemExit" /\ UNCHANGED storeVars)]_vars

\* what list_workflows() may return for a workflows folder
Listings(wd, fs) ==
    IF ~wd THEN {<<>>} ELSE {list_workflows_of(order) : order \in Orders(glob_md(fs))}

\* C17: no initialize call, forced or not, accepted or refused, deletes or
\* rewrites a workflow document: the files of the workflows folder, with their
\* contents, are the same after the call as before it, and list_workflows()
\* returns the same records.
C17_InitializeKeepsDocuments ==
    [][last'.op = "initialize" =>
          /\ glob_md(files') = glob_md(files)
          /\ Listings(workflows_dir', files') = Listings(workflows_dir, files)]_vars

\* a successful initialize on a store that holds two documents
C17_Witness ==
    /\ last.op = "initialize" /\ last.outcome = "ok"
    /\ Cardinality(glob_md(files)) >= 2

\* config.json is the one written by an initialize that was the first call on
\* the fresh project, so no forced initialize has replaced it
InitializedOnce ==
    /\ Initialized
    /\ config_file.kind = "json"
    /\ "created_at" \in DOMAIN config_file.data
    /\ config_file.data.created_at = 0

\* the document of the workflows folder with this identifier
DocumentOf(id) == CHOOSE f \in glob_md(files) : Stem(f.name) = id

\* the `workflows` list holds exactly the identifiers of the documents of the
\* workflows folder, each once, in the order the documents were created in
IndexInCreationOrder ==
    /\ IndexIds = DocumentIds
    /\ \A id \in IndexIds : Occurrences(id, IndexList) = 1
    /\ \A i, j \in 1..Len(IndexList) :
          i < j => DocumentOf(IndexList[i]).date < DocumentOf(IndexList[j]).date

\* C18: with one writer, after an initialize of a fresh project followed by
\* add_workflow calls only (accepted or refused as duplicates, no forced
\* initialize), the `workflows` list holds exactly the identifiers of the
\* documents on disk, each once, in order of creation.
C18_IndexInCreationOrder ==
    InitializedOnce => IndexInCreationOrder

\* the same, as long as no name with a path separator was added
IndexInCreationOrderWithoutSeparators ==
    (InitializedOnce /\ \A name \in added : ~InList("/", name)) => IndexInCreationOrder

\* C19: an add_workflow call that fails, for whatever reason (duplicate
\* identifier, missing workflows folder, config.json that does not parse),
\* has created or changed no document file and has left config.json as it was.
C19_FailedAddChangesNothing ==
    [][(last'.op = "add_workflow" /\ last'.outcome # "ok") =>
          (files' = files /\ config_file' = config_file)]_vars

====
